---------------------------- MODULE Spec2Model ----------------------------
(***************************************************************************)
(* A model of the storage-backed LazySet                                   *)
(* (shared/src/ledger/storage_api/collections/lazy_set.rs), of the         *)
(* SlashFund native validity predicate                                     *)
(* (shared/src/ledger/native_vp/slash_fund.rs), of the PoS rewards         *)
(* calculator (proof_of_stake/src/rewards.rs), of the chain ID             *)
(* (core/src/types/chain.rs), of the queue of wrapper transactions         *)
(* (shared/src/types/internal.rs) and of the mock Web3 client              *)
(* (apps/src/lib/node/ledger/ethereum_node/test_tools/mod.rs).             *)
(*                                                                         *)
(* Strings are sequences of character codes, so that the byte-wise         *)
(* lexicographic order of encoded storage keys can be computed.            *)
(***************************************************************************)
EXTENDS Integers, Sequences, FiniteSets, TLC

VARIABLES
    storage,    \* the key-value store: a function from storage keys to bytes
    order,      \* history: per set, the values inserted and not removed since,
                \* in the order of their insertion
    lastOp,     \* the last LazySet call: its name, set, argument, result and
                \* the storage calls it issued
    pre,        \* SlashFund VP: the pre-write state a validation reads
    tx,         \* SlashFund VP: the candidate transaction under validation
    verdict,    \* SlashFund VP: the result of validate_tx, NoVerdict before it
    calc,       \* PoS rewards: the PosRewardsCalculator and its history
    calcRet,    \* PoS rewards: the last call on the calculator and its result
    chain,      \* chain ID: the prefix, the genesis bytes, the derived ID and
                \* the result of its validation
    queue,      \* TxQueue: the queue, the last call and the history of the
                \* wrappers pushed and popped
    web3,       \* mock Web3 client: the Web3Client and its command channel
    web3Ret     \* mock Web3 client: the last call, its result and the
                \* history of commands and deliveries

setVars == <<storage, order, lastOp>>
vpVars == <<pre, tx, verdict>>
posVars == <<calc, calcRet>>
chainVars == <<chain>>
queueVars == <<queue>>
web3Vars == <<web3, web3Ret>>
vars == <<storage, order, lastOp, pre, tx, verdict, calc, calcRet, chain,
          queue, web3, web3Ret>>
\* What the operations of each component have no access to.
nonSetVars == <<vpVars, posVars, chainVars, queueVars, web3Vars>>
nonVpVars == <<setVars, posVars, chainVars, queueVars, web3Vars>>
nonPosVars == <<setVars, vpVars, chainVars, queueVars, web3Vars>>
nonChainVars == <<setVars, vpVars, posVars, queueVars, web3Vars>>
nonQueueVars == <<setVars, vpVars, posVars, chainVars, web3Vars>>
nonWeb3Vars == <<setVars, vpVars, posVars, chainVars, queueVars>>

---------------------------------------------------------------------------
(* Bounds of the model. *)

\* LazySet values are drawn from {0, Stride, ..., MaxVal * Stride}.
MaxVal == 2
\* The distance between two values: with 5, the values 0, 5, 10 have the
\* encodings "0", "5", "10", whose key order "0" < "10" < "5" is neither
\* the numeric order nor (in general) the insertion order.
Stride == 5

Vals == {v * Stride : v \in 0..MaxVal}

---------------------------------------------------------------------------
(* Results and options. *)

Ok(v) == [ok |-> TRUE, val |-> v]
Err(e) == [ok |-> FALSE, err |-> e]
Some(v) == <<v>>
None == <<>>
is_some(o) == o # <<>>

Range(f) == {f[i] : i \in DOMAIN f}

---------------------------------------------------------------------------
(* Key addressing: segments, keys and their order.  A segment is a string  *)
(* (a sequence of character codes), a key a sequence of segments.          *)

\* "/", the separator of a key's textual form
KEY_SEGMENT_SEPARATOR == <<47>>

\* The character of a decimal digit: '0' is 48.
DigitChar(d) == 48 + d

\* "data"
DATA_SUBKEY == <<100, 97, 116, 97>>

\* Byte-wise lexicographic order on strings (Rust's Ord for str / Vec<u8>).
LexLess(a, b) ==
    \E i \in 1..Len(b) :
        /\ i - 1 <= Len(a)
        /\ \A j \in 1..(i - 1) : a[j] = b[j]
        /\ (Len(a) = i - 1 \/ a[i] < b[i])

\* The textual form of a key: its segments joined by '/'.
RECURSIVE KeyToString(_)
KeyToString(key) ==
    IF key = <<>> THEN <<>>
    ELSE IF Len(key) = 1 THEN key[1]
    ELSE key[1] \o KEY_SEGMENT_SEPARATOR \o KeyToString(Tail(key))

\* key.push(seg)
KeyPush(key, seg) == Append(key, seg)

\* Whether `key` lies under `prefix` (segment-wise).
HasPrefix(key, prefix) ==
    /\ Len(prefix) <= Len(key)
    /\ SubSeq(key, 1, Len(prefix)) = prefix

\* KeySeg::to_db_key of an unsigned integer: its decimal digits.
RECURSIVE to_db_key(_)
to_db_key(val) ==
    IF val < 10 THEN <<DigitChar(val)>>
    ELSE to_db_key(val \div 10) \o <<DigitChar(val % 10)>>

IsDigit(c) == \E d \in 0..9 : c = DigitChar(d)

RECURSIVE DigitsValue(_)
DigitsValue(seg) ==
    IF seg = <<>> THEN 0
    ELSE 10 * DigitsValue(SubSeq(seg, 1, Len(seg) - 1)) + (seg[Len(seg)] - DigitChar(0))

\* KeySeg::parse of an unsigned integer: Err unless a nonempty digit string.
parse(seg) ==
    IF seg # <<>> /\ \A i \in 1..Len(seg) : IsDigit(seg[i])
    THEN Ok(DigitsValue(seg))
    ELSE Err("ParseKeySeg")

---------------------------------------------------------------------------
(* The storage interface: has_key, read, write, delete and the prefix      *)
(* scan, over a store that is a function from keys to byte strings.        *)

has_key(st, key) == key \in DOMAIN st

read(st, key) == IF key \in DOMAIN st THEN Some(st[key]) ELSE None

write(st, key, bytes) ==
    [k \in (DOMAIN st) \cup {key} |-> IF k = key THEN bytes ELSE st[k]]

delete(st, key) == [k \in (DOMAIN st) \ {key} |-> st[k]]

\* Borsh encoding of the unit value: no bytes.
EncodeUnit == <<>>

\* The keys of S in the order of their textual form.
RECURSIVE SortKeys(_)
SortKeys(S) ==
    IF S = {} THEN <<>>
    ELSE LET m == CHOOSE k \in S :
                    \A j \in S \ {k} : LexLess(KeyToString(k), KeyToString(j))
         IN  <<m>> \o SortKeys(S \ {m})

\* storage_api::iter_prefix_bytes: the (key, value) entries under `prefix`,
\* in key order.
iter_prefix_bytes(st, prefix) ==
    LET ks == SortKeys({k \in DOMAIN st : HasPrefix(k, prefix)})
    IN  [i \in 1..Len(ks) |-> <<ks[i], st[ks[i]]>>]

---------------------------------------------------------------------------
(* LazySet<T>.  A set is its base storage key; every operation borrows the *)
(* storage.  Each operation returns its result, the storage it leaves and  *)
(* the storage calls it issued.                                            *)

\* "test", the base key of the set of test_lazy_set_basics
KeyTest == << <<116, 101, 115, 116>> >>
\* "pool", the base key of a second set in the same storage
KeyPool == << <<112, 111, 111, 108>> >>

LazySetKeys == {KeyTest, KeyPool}

Call(name, key) == [call |-> name, key |-> key]

get_data_prefix(key) == KeyPush(key, DATA_SUBKEY)

get_data_key(key, val) == KeyPush(get_data_prefix(key), to_db_key(val))

\* Mutant: the existence check is made on the set's data prefix.
contains_prefix(key, st, val) == has_key(st, get_data_prefix(key))

contains(key, st, val) == has_key(st, get_data_key(key, val))

\* Mutant: the marker is written without the existence check.
insert_unchecked(key, st, val) ==
    LET data_key == get_data_key(key, val)
    IN  [ret |-> TRUE, storage |-> write(st, data_key, EncodeUnit),
         calls |-> <<Call("write", data_key)>>]

\* Mutant: the data key is built on the base key "test" for every set.
insert_unscoped(key, st, val) ==
    LET data_key == get_data_key(KeyTest, val)
    IN  IF has_key(st, data_key)
        THEN [ret |-> FALSE, storage |-> st,
              calls |-> <<Call("has_key", data_key)>>]
        ELSE [ret |-> TRUE, storage |-> write(st, data_key, EncodeUnit),
              calls |-> <<Call("has_key", data_key), Call("write", data_key)>>]

insert(key, st, val) ==
    LET data_key == get_data_key(key, val)
    IN  IF contains(key, st, val)
        THEN [ret |-> FALSE, storage |-> st,
              calls |-> <<Call("has_key", data_key)>>]
        ELSE [ret |-> TRUE, storage |-> write(st, data_key, EncodeUnit),
              calls |-> <<Call("has_key", data_key), Call("write", data_key)>>]

\* Mutant: the storage entry is read but not deleted.
remove_no_delete(key, st, val) ==
    LET data_key == get_data_key(key, val)
        value == read(st, data_key)
    IN  [ret |-> is_some(value), storage |-> st,
         calls |-> <<Call("read", data_key)>>]

\* Mutant: the storage entry is read after it is deleted.
remove_read_after_delete(key, st, val) ==
    LET data_key == get_data_key(key, val)
        value == read(delete(st, data_key), data_key)
    IN  [ret |-> is_some(value), storage |-> delete(st, data_key),
         calls |-> <<Call("delete", data_key), Call("read", data_key)>>]

\* Mutant: the delete is issued only when the read found the entry.
remove_if_present(key, st, val) ==
    LET data_key == get_data_key(key, val)
        value == read(st, data_key)
    IN  IF is_some(value)
        THEN [ret |-> TRUE, storage |-> delete(st, data_key),
              calls |-> <<Call("read", data_key), Call("delete", data_key)>>]
        ELSE [ret |-> FALSE, storage |-> st,
              calls |-> <<Call("read", data_key)>>]

remove(key, st, val) ==
    LET data_key == get_data_key(key, val)
        value == read(st, data_key)
    IN  [ret |-> is_some(value), storage |-> delete(st, data_key),
         calls |-> <<Call("read", data_key), Call("delete", data_key)>>]

\* iter.count()
len(key, st) == Len(iter_prefix_bytes(st, get_data_prefix(key)))

\* Mutant: is_some() for is_none().
is_empty_inverted(key, st) ==
    LET it == iter_prefix_bytes(st, get_data_prefix(key))
    IN  1 \in DOMAIN it

\* iter.next().is_none()
is_empty(key, st) ==
    LET it == iter_prefix_bytes(st, get_data_prefix(key))
    IN  ~(1 \in DOMAIN it)

\* Mutant: the elements are yielded in the order of their insertion.
iter_insertion_order(key, st) ==
    [i \in 1..Len(order[key]) |-> Ok(order[key][i])]

\* Mutant: entries whose last segment does not decode are passed over.
iter_skip_errors(key, st) ==
    LET it == iter_prefix_bytes(st, get_data_prefix(key))
        decoded(key_val) == key_val[1] # <<>> /\ parse(key_val[1][Len(key_val[1])]).ok
        kept == SelectSeq(it, decoded)
    IN  [i \in 1..Len(kept) |-> parse(kept[i][1][Len(kept[i][1])])]

\* The items of the iterator, in the order it yields them.
iter(key, st) ==
    LET it == iter_prefix_bytes(st, get_data_prefix(key))
        item(key_val) ==
            LET k == key_val[1]
            IN  IF k = <<>> THEN Err("UnexpectedlyEmptyStorageKey")
                ELSE parse(k[Len(k)])
    IN  [i \in 1..Len(it) |-> item(it[i])]

---------------------------------------------------------------------------
(* The LazySet state machine: calls on two sets that share one storage.    *)

\* The history of a set after insert(val) / remove(val): the values present,
\* in insertion order.
Inserted(s, val) == IF val \in Range(s) THEN s ELSE Append(s, val)
Removed(s, val) == SelectSeq(s, LAMBDA x : x # val)

\* Whether val is in the history of the set at key.
Present(key, val) == val \in Range(order[key])

NoCall == [op |-> "new", key |-> <<>>, val |-> 0, had |-> FALSE,
           ret |-> FALSE, calls |-> <<>>, before |-> <<>>]

\* The state after TestStorage::default() and LazySet::new on each base key.
LazySetInit ==
    /\ storage = <<>>
    /\ order = [k \in LazySetKeys |-> <<>>]
    /\ lastOp = NoCall

Insert(key, val) ==
    LET r == insert(key, storage, val)
    IN  /\ storage' = r.storage
        /\ order' = [order EXCEPT ![key] = Inserted(@, val)]
        /\ lastOp' = [op |-> "insert", key |-> key, val |-> val,
                       had |-> Present(key, val),
                       ret |-> r.ret, calls |-> r.calls, before |-> storage]
        /\ UNCHANGED nonSetVars

Remove(key, val) ==
    LET r == remove(key, storage, val)
    IN  /\ storage' = r.storage
        /\ order' = [order EXCEPT ![key] = Removed(@, val)]
        /\ lastOp' = [op |-> "remove", key |-> key, val |-> val,
                       had |-> Present(key, val),
                       ret |-> r.ret, calls |-> r.calls, before |-> storage]
        /\ UNCHANGED nonSetVars

Contains(key, val) ==
    /\ lastOp' = [op |-> "contains", key |-> key, val |-> val,
                   had |-> Present(key, val),
                   ret |-> contains(key, storage, val),
                   calls |-> <<Call("has_key", get_data_key(key, val))>>,
                   before |-> storage]
    /\ UNCHANGED <<storage, order, nonSetVars>>

\* len, is_empty and iter: one prefix scan each, nothing written.
Query(key, name, ret) ==
    /\ lastOp' = [op |-> name, key |-> key, val |-> 0, had |-> FALSE,
                   ret |-> ret,
                   calls |-> <<Call("iter_prefix", get_data_prefix(key))>>,
                   before |-> storage]
    /\ UNCHANGED <<storage, order, nonSetVars>>

LenCall(key) == Query(key, "len", len(key, storage))

IsEmpty(key) == Query(key, "is_empty", is_empty(key, storage))

Iter(key) == Query(key, "iter", iter(key, storage))

\* Last segments written under a data prefix by a writer other than the
\* set: "x" and "1x", which do not decode, and "05", which does.
RawSegments == {<<120>>, <<DigitChar(1), 120>>, <<DigitChar(0), DigitChar(5)>>}

\* A storage write of an entry under the data prefix of the set at key,
\* made without the set.
RawWrite(key, seg) ==
    /\ storage' = write(storage, KeyPush(get_data_prefix(key), seg),
                        EncodeUnit)
    /\ lastOp' = [op |-> "write", key |-> key, val |-> 0, had |-> FALSE,
                   ret |-> FALSE,
                   calls |-> <<Call("write",
                                    KeyPush(get_data_prefix(key), seg))>>,
                   before |-> storage]
    /\ UNCHANGED <<order, nonSetVars>>

---------------------------------------------------------------------------
(* Properties of LazySet. *)

\* The values of the items of an iteration that decoded.
IterValues(key) ==
    LET it == iter(key, storage)
    IN  [i \in DOMAIN it |-> IF it[i].ok THEN it[i].val ELSE -1]

\* C1: after every insert and remove call, starting from an empty data
\* subtree, len() is the number of distinct values inserted and not removed
\* since.
C1_LenCountsPresent ==
    \A key \in LazySetKeys :
        len(key, storage) = Cardinality(Range(order[key]))

\* Three values were inserted and one of them was removed: len() is 2.
C1_Witness ==
    /\ lastOp.op = "remove"
    /\ lastOp.ret = TRUE
    /\ Len(order[KeyTest]) = 2
    /\ len(KeyTest, storage) = 2

\* C2: contains(x) is true exactly when x is present, which is exactly when
\* the storage entry at base/"data"/<encoding of x> exists; every stored
\* value is empty.
C2_ContainsIffPresent ==
    /\ \A key \in LazySetKeys, x \in Vals :
          /\ contains(key, storage, x) <=> Present(key, x)
          /\ contains(key, storage, x) <=>
                 (KeyPush(KeyPush(key, DATA_SUBKEY), to_db_key(x))
                      \in DOMAIN storage)
    /\ \A k \in DOMAIN storage : storage[k] = <<>>

\* One value was inserted and removed again while another stays in the set.
C2_Witness ==
    /\ lastOp.op = "remove"
    /\ lastOp.ret = TRUE
    /\ ~contains(KeyTest, storage, lastOp.val)
    /\ \E x \in Vals : contains(KeyTest, storage, x)

\* C3: insert(x) returns false and writes nothing when x is already present;
\* otherwise it returns true, writes an empty marker at x's data subkey, and
\* contains(x) holds afterwards.
C3_InsertResult ==
    lastOp.op = "insert" =>
        LET data_key == get_data_key(lastOp.key, lastOp.val)
        IN  IF lastOp.had
            THEN /\ lastOp.ret = FALSE
                 /\ \A i \in DOMAIN lastOp.calls :
                        lastOp.calls[i].call \notin {"write", "delete"}
                 /\ storage = lastOp.before
            ELSE /\ lastOp.ret = TRUE
                 /\ \E i \in DOMAIN lastOp.calls :
                        lastOp.calls[i] = Call("write", data_key)
                 /\ data_key \notin DOMAIN lastOp.before
                 /\ data_key \in DOMAIN storage
                 /\ storage[data_key] = <<>>
                 /\ contains(lastOp.key, storage, lastOp.val)

\* A value already present was inserted again.
C3_Witness ==
    /\ lastOp.op = "insert"
    /\ lastOp.had
    /\ lastOp.ret = FALSE
    /\ Len(order[KeyTest]) >= 2

\* C4: remove(x) returns true if and only if x was present immediately
\* before the call, and contains(x) is false after it in either case.
C4_RemoveResult ==
    lastOp.op = "remove" =>
        /\ lastOp.ret <=> lastOp.had
        /\ ~contains(lastOp.key, storage, lastOp.val)

\* A present value was removed while another value stays in the set.
C4_Witness ==
    /\ lastOp.op = "remove"
    /\ lastOp.had
    /\ lastOp.ret = TRUE
    /\ Len(order[KeyTest]) >= 1

\* C5: in every state reached by insert and remove calls, is_empty() is true
\* if and only if len() is 0.
C5_IsEmptyIffLenZero ==
    /\ \A key \in LazySetKeys :
          is_empty(key, storage) <=> (len(key, storage) = 0)
    /\ lastOp.op = "is_empty" =>
          (lastOp.ret <=> (len(lastOp.key, storage) = 0))

\* is_empty() was called on a set of two elements.
C5_Witness ==
    /\ lastOp.op = "is_empty"
    /\ lastOp.ret = FALSE
    /\ len(KeyTest, storage) = 2

\* C6: two sets that hold the same elements yield the same iteration
\* sequence, whatever the order of the calls that built them, and the
\* sequence is in the order of the elements' encoded keys.
C6_IterDependsOnElementsOnly ==
    /\ \A a, b \in LazySetKeys :
          Range(order[a]) = Range(order[b]) =>
              iter(a, storage) = iter(b, storage)
    /\ \A key \in LazySetKeys :
          LET it == iter(key, storage)
          IN  /\ \A i \in DOMAIN it : it[i].ok
              /\ \A i, j \in DOMAIN it :
                    i < j => LexLess(to_db_key(it[i].val), to_db_key(it[j].val))

\* Two sets hold the same elements, inserted in different orders.
C6_Witness ==
    /\ Range(order[KeyTest]) = Range(order[KeyPool])
    /\ order[KeyTest] # order[KeyPool]
    /\ Len(order[KeyTest]) = MaxVal + 1
    /\ IterValues(KeyTest) = IterValues(KeyPool)
    /\ IterValues(KeyTest) # order[KeyTest]

---------------------------------------------------------------------------
(* Keys of the SlashFund VP: a key is a sequence of DbKeySeg, each an      *)
(* address or a string.                                                    *)

AddressSeg(addr) == [seg |-> "AddressSeg", addr |-> addr]
StringSeg(str) == [seg |-> "StringSeg", str |-> str]

Internal(name) == [kind |-> "Internal", name |-> name]
Established(name) == [kind |-> "Established", name |-> name]

\* slash_fund::ADDRESS
ADDRESS == Internal("SlashFund")
Nam == Established("nam")
Btc == Established("btc")
Albert == Established("albert")

BALANCE_STORAGE_KEY == "balance"

\* slash_fund::storage::is_slash_fund_key: the key's first segment is the
\* slash fund's address.
is_slash_fund_key(key) ==
    /\ key # <<>>
    /\ key[1] = AddressSeg(ADDRESS)

\* token::is_any_token_balance_key: the owner of <token>/balance/<owner>.
is_any_token_balance_key(key) ==
    IF /\ Len(key) = 3
       /\ key[1].seg = "AddressSeg"
       /\ key[2] = StringSeg(BALANCE_STORAGE_KEY)
       /\ key[3].seg = "AddressSeg"
    THEN Some(key[3].addr)
    ELSE None

\* token::is_balance_key: the owner of <token_addr>/balance/<owner>.
is_balance_key(token_addr, key) ==
    IF /\ is_some(is_any_token_balance_key(key))
       /\ key[1] = AddressSeg(token_addr)
    THEN Some(key[3].addr)
    ELSE None

\* KeyType
BALANCE(addr) == [type |-> "BALANCE", addr |-> addr]
UNKNOWN_SLASH_FUND == [type |-> "UNKNOWN_SLASH_FUND"]
UNKNOWN == [type |-> "UNKNOWN"]

\* Mutant: the balance test is made before the slash fund test.
get_key_type_balance_first(value, native_token) ==
    IF is_some(is_any_token_balance_key(value))
    THEN LET addr == is_balance_key(native_token, value)
         IN  IF is_some(addr) THEN BALANCE(addr[1]) ELSE UNKNOWN
    ELSE IF is_slash_fund_key(value)
    THEN UNKNOWN_SLASH_FUND
    ELSE UNKNOWN

get_key_type(value, native_token) ==
    IF is_slash_fund_key(value)
    THEN UNKNOWN_SLASH_FUND
    ELSE IF is_some(is_any_token_balance_key(value))
    THEN LET addr == is_balance_key(native_token, value)
         IN  IF is_some(addr) THEN BALANCE(addr[1]) ELSE UNKNOWN
    ELSE UNKNOWN

---------------------------------------------------------------------------
(* The pre-write state a validation reads, and the governance query.       *)

\* Proposals 0..MaxProposal exist; any subset of them is accepted.
MaxProposal == 1
\* A transaction changes at most MaxKeys keys.
MaxKeys == 3

ProposalIds == 0..MaxProposal

\* Borsh encoding of a u64: eight bytes, least significant first.
RECURSIVE LittleEndian(_, _)
LittleEndian(n, width) ==
    IF width = 0 THEN <<>>
    ELSE <<n % 256>> \o LittleEndian(n \div 256, width - 1)

EncodeU64(n) == LittleEndian(n, 8)

RECURSIVE LittleEndianValue(_)
LittleEndianValue(bytes) ==
    IF bytes = <<>> THEN 0
    ELSE bytes[1] + 256 * LittleEndianValue(Tail(bytes))

\* u64::try_from_slice: Some(id) for exactly eight bytes, None otherwise.
DecodeU64(bytes) ==
    IF Len(bytes) = 8 THEN Some(LittleEndianValue(bytes)) ELSE None

\* governance::utils::is_proposal_accepted: whether the payload decodes to
\* the id of a proposal whose execution key is in storage; an undecodable
\* payload is not accepted, a failing storage read is an error.
is_proposal_accepted(state, tx_data) ==
    LET proposal_id == DecodeU64(tx_data)
    IN  IF ~is_some(proposal_id) THEN Ok(FALSE)
        ELSE IF state.query_fails THEN Err("StorageError")
        ELSE Ok(proposal_id[1] \in state.accepted)

\* ctx.pre().get_native_token()
get_native_token(state) ==
    IF state.read_fails THEN Err("NativeVpError")
    ELSE Ok(state.native_token)

unwrap_or(result, default) == IF result.ok THEN result.val ELSE default

---------------------------------------------------------------------------
(* SlashFundVp::validate_tx.  `keys` lists keys_changed in the order the   *)
(* BTreeSet's iterator yields them.                                        *)

\* Mutant: a failed governance query counts as an accepted proposal.
key_verdict_fail_open(state, native_token, tx_data, key) ==
    LET key_type == get_key_type(key, native_token)
    IN  IF key_type.type = "BALANCE"
        THEN IF key_type.addr # ADDRESS
             THEN TRUE
             ELSE unwrap_or(is_proposal_accepted(state, tx_data), TRUE)
        ELSE IF key_type.type = "UNKNOWN_SLASH_FUND" THEN FALSE
        ELSE TRUE

\* Mutant: eq for ne in the test of the balance's owner.
key_verdict_eq(state, native_token, tx_data, key) ==
    LET key_type == get_key_type(key, native_token)
    IN  IF key_type.type = "BALANCE"
        THEN IF key_type.addr = ADDRESS
             THEN TRUE
             ELSE unwrap_or(is_proposal_accepted(state, tx_data), FALSE)
        ELSE IF key_type.type = "UNKNOWN_SLASH_FUND" THEN FALSE
        ELSE TRUE

\* The closure of validate_tx: the verdict on one changed key.
key_verdict(state, native_token, tx_data, key) ==
    LET key_type == get_key_type(key, native_token)
    IN  IF key_type.type = "BALANCE"
        THEN IF key_type.addr # ADDRESS
             THEN TRUE
             ELSE unwrap_or(is_proposal_accepted(state, tx_data), FALSE)
        ELSE IF key_type.type = "UNKNOWN_SLASH_FUND" THEN FALSE
        ELSE TRUE

\* Mutant: Iterator::any for Iterator::all.
RECURSIVE all_any(_)
all_any(verdicts) ==
    IF verdicts = <<>> THEN FALSE
    ELSE IF Head(verdicts) THEN TRUE
    ELSE all_any(Tail(verdicts))

\* Iterator::all over the closure's verdicts, taken in order: FALSE at the
\* first key the closure rejects.
RECURSIVE all(_)
all(verdicts) ==
    IF verdicts = <<>> THEN TRUE
    ELSE IF ~Head(verdicts) THEN FALSE
    ELSE all(Tail(verdicts))

\* Mutant: a failed read of the native token gives the verdict false.
validate_tx_read_or_false(state, tx_data, keys, verifiers) ==
    LET native_token == get_native_token(state)
    IN  IF ~native_token.ok THEN Ok(FALSE)
        ELSE Ok(all([i \in 1..Len(keys) |->
                        key_verdict(state, native_token.val, tx_data, keys[i])]))

\* Mutant: a transaction that the slash fund does not verify is rejected.
validate_tx_needs_verifier(state, tx_data, keys, verifiers) ==
    LET native_token == get_native_token(state)
    IN  IF ~native_token.ok THEN Err(native_token.err)
        ELSE Ok(ADDRESS \in verifiers
                /\ all([i \in 1..Len(keys) |->
                        key_verdict(state, native_token.val, tx_data, keys[i])]))

validate_tx(state, tx_data, keys, verifiers) ==
    LET native_token == get_native_token(state)
    IN  IF ~native_token.ok THEN Err(native_token.err)
        ELSE Ok(all([i \in 1..Len(keys) |->
                        key_verdict(state, native_token.val, tx_data, keys[i])]))

---------------------------------------------------------------------------
(* The validation state machine: a candidate transaction over a pre-write  *)
(* state, and one call of validate_tx on it.                               *)

\* The keys a transaction may change.
NativeBalanceOfFund == <<AddressSeg(Nam), StringSeg("balance"), AddressSeg(ADDRESS)>>
NativeBalanceOfAlbert == <<AddressSeg(Nam), StringSeg("balance"), AddressSeg(Albert)>>
BtcBalanceOfFund == <<AddressSeg(Btc), StringSeg("balance"), AddressSeg(ADDRESS)>>
FundBalanceShaped == <<AddressSeg(ADDRESS), StringSeg("balance"), AddressSeg(Albert)>>
FundOther == <<AddressSeg(ADDRESS), StringSeg("params")>>
Unrelated == <<AddressSeg(Albert), StringSeg("counter")>>

Keys == {NativeBalanceOfFund, NativeBalanceOfAlbert, BtcBalanceOfFund,
         FundBalanceShaped, FundOther, Unrelated}

\* The payloads: the ids of the proposals, the id of a proposal that does
\* not exist, and payloads that are no u64.
TxDatas ==
    {EncodeU64(id) : id \in 0..(MaxProposal + 1)}
        \cup {<<>>, <<1>>, EncodeU64(0) \o <<0>>}

VerifierSets == {{}, {ADDRESS, Albert}}

PreStates ==
    [native_token : {Nam, Btc}, accepted : SUBSET ProposalIds,
     read_fails : BOOLEAN, query_fails : BOOLEAN]

Txs ==
    [tx_data : TxDatas,
     keys_changed : {ks \in SUBSET Keys : Cardinality(ks) <= MaxKeys},
     verifiers : VerifierSets]

NoVerdict == <<>>

\* The sequences that list the set S once each: the orders an iterator over
\* S may take.
Orders(S) ==
    {seq \in [1..Cardinality(S) -> S] : \A k \in S : \E i \in DOMAIN seq : seq[i] = k}

VpInit ==
    /\ pre \in PreStates
    /\ tx \in Txs
    /\ verdict = NoVerdict

\* validate_tx on the candidate transaction.  The order of the BTreeSet is
\* Key's Ord; every order of the changed keys is taken here.
ValidateTx ==
    /\ verdict = NoVerdict
    /\ \E keys \in Orders(tx.keys_changed) :
           verdict' = validate_tx(pre, tx.tx_data, keys, tx.verifiers)
    /\ UNCHANGED <<pre, tx, nonVpVars>>

---------------------------------------------------------------------------
(* Validation tasks of several transactions over one pre-write state: each *)
(* task is one call of validate_tx, and the tasks run in any order.        *)

Tasks == {"t1", "t2"}

\* The transactions of the tasks: at most one changed key each.
TaskTxs ==
    {t \in Txs : /\ Cardinality(t.keys_changed) <= 1
                 /\ t.verifiers = {}
                 /\ t.tx_data \in {EncodeU64(id) : id \in ProposalIds} \cup {<<>>}}

ParallelInit ==
    /\ pre \in PreStates
    /\ tx \in [Tasks -> TaskTxs]
    /\ verdict = [t \in Tasks |-> NoVerdict]

\* Mutant: the validation deletes the execution key of the proposal it found
\* accepted.
ValidateTaskConsuming(t) ==
    /\ verdict[t] = NoVerdict
    /\ \E keys \in Orders(tx[t].keys_changed) :
           verdict' = [verdict EXCEPT ![t] =
               validate_tx(pre, tx[t].tx_data, keys, tx[t].verifiers)]
    /\ pre' = [pre EXCEPT !.accepted =
                   IF is_some(DecodeU64(tx[t].tx_data))
                   THEN @ \ {DecodeU64(tx[t].tx_data)[1]} ELSE @]
    /\ UNCHANGED <<tx, nonVpVars>>

\* validate_tx of task t: it reads the pre-write state through &self and
\* returns the verdict; nothing is written.
ValidateTask(t) ==
    /\ verdict[t] = NoVerdict
    /\ \E keys \in Orders(tx[t].keys_changed) :
           verdict' = [verdict EXCEPT ![t] =
               validate_tx(pre, tx[t].tx_data, keys, tx[t].verifiers)]
    /\ UNCHANGED <<pre, tx, nonVpVars>>

---------------------------------------------------------------------------
(* Properties of SlashFundVp::validate_tx. *)

\* validate_tx has returned, and its read of the native token succeeded.
Validated == verdict # NoVerdict /\ ~pre.read_fails

\* The balance key of the native token that the slash fund owns.
FundBalanceKey ==
    <<AddressSeg(pre.native_token), StringSeg("balance"), AddressSeg(ADDRESS)>>

\* C7: validate_tx returns Ok(false) whenever keys_changed holds a key under
\* the slash fund's storage namespace, for every tx_data and whatever the
\* other changed keys are, given that the native-token read succeeds.
C7_NamespaceKeyInvalidates ==
    (Validated /\ \E key \in tx.keys_changed : is_slash_fund_key(key))
        => verdict = Ok(FALSE)

\* A key under the namespace is changed with a native balance that is not
\* the fund's, under the payload of an accepted proposal: Ok(false).
C7_Witness ==
    /\ Validated
    /\ tx.keys_changed = {FundBalanceShaped, NativeBalanceOfAlbert}
    /\ pre.native_token = Nam
    /\ is_proposal_accepted(pre, tx.tx_data) = Ok(TRUE)
    /\ verdict = Ok(FALSE)

\* C8: when the only changed key is the slash fund's balance of the native
\* token, validate_tx returns Ok(true) if the governance query on tx_data
\* reports an accepted proposal, and Ok(false) if it reports that none is
\* accepted or fails.
C8_FundBalanceFollowsGovernance ==
    (Validated /\ tx.keys_changed = {FundBalanceKey}) =>
        LET accepted == is_proposal_accepted(pre, tx.tx_data)
        IN  /\ accepted = Ok(TRUE) => verdict = Ok(TRUE)
            /\ accepted = Ok(FALSE) => verdict = Ok(FALSE)
            /\ ~accepted.ok => verdict = Ok(FALSE)

\* The fund's native balance is changed under the payload of the accepted
\* proposal 1: Ok(true).
C8_Witness ==
    /\ Validated
    /\ tx.keys_changed = {FundBalanceKey}
    /\ tx.tx_data = <<1, 0, 0, 0, 0, 0, 0, 0>>
    /\ 1 \in pre.accepted
    /\ ~pre.query_fails
    /\ verdict = Ok(TRUE)

C10_VerdictIsConjunction ==
    Validated =>
        /\ verdict.ok
        /\ verdict.val <=>
               \A key \in tx.keys_changed :
                   validate_tx(pre, tx.tx_data, <<key>>, tx.verifiers) = Ok(TRUE)

\* Of three changed keys two are acceptable alone and one is not: Ok(false).
C10_Witness ==
    /\ Validated
    /\ Cardinality(tx.keys_changed) = 3
    /\ Cardinality({key \in tx.keys_changed :
           validate_tx(pre, tx.tx_data, <<key>>, tx.verifiers) = Ok(FALSE)}) = 1
    /\ verdict = Ok(FALSE)

\* The governance query reads storage for tx_data, and that read fails.
QueryReadFails ==
    /\ is_some(DecodeU64(tx.tx_data))
    /\ pre.query_fails

\* C11 as claimed: if any storage read made during validate_tx fails, the
\* result is Err, never Ok(true) or Ok(false).  With the fund's native
\* balance as the only changed key the governance query is always made.
C11_AnyFailedReadIsErr ==
    (/\ verdict # NoVerdict
     /\ \/ pre.read_fails
        \/ tx.keys_changed = {FundBalanceKey} /\ QueryReadFails)
        => ~verdict.ok

\* C11 as amended: validate_tx returns Err exactly when its read of the
\* native token fails; a failed read of the governance query is not
\* propagated but counts as not accepted, so that with the fund's native
\* balance among the changed keys the result is Ok(false).
C11_ReadFailures ==
    verdict # NoVerdict =>
        /\ pre.read_fails <=> ~verdict.ok
        /\ pre.read_fails => verdict = Err("NativeVpError")
        /\ (~pre.read_fails /\ FundBalanceKey \in tx.keys_changed
                /\ QueryReadFails)
               => verdict = Ok(FALSE)

\* The read of the native token failed on a transaction that changes keys:
\* Err.
C11_Witness ==
    /\ verdict # NoVerdict
    /\ pre.read_fails
    /\ tx.keys_changed # {}
    /\ verdict = Err("NativeVpError")

\* The results validate_tx gives on transaction t over `state` when it is
\* the only call made.
AloneVerdicts(state, t) ==
    {validate_tx(state, t.tx_data, keys, t.verifiers) :
         keys \in Orders(t.keys_changed)}

\* C12: validate_tx has no side effects: every call, whatever it returns,
\* leaves the pre-write state and the candidate write-sets as they were, and
\* the verdict of every task that has run, in any interleaving, is the one
\* the call gives when run alone on that state.
C12_ValidationHasNoEffect ==
    /\ [][pre' = pre /\ tx' = tx /\ setVars' = setVars]_vars
    /\ [](\A t \in Tasks :
             verdict[t] # NoVerdict =>
                 verdict[t] \in AloneVerdicts(pre, tx[t]))

\* Both tasks have run on the fund's native balance, one under the payload
\* of an accepted proposal and one not: Ok(true) and Ok(false).
C12_Witness ==
    /\ verdict["t1"] = Ok(TRUE)
    /\ verdict["t2"] = Ok(FALSE)
    /\ tx["t1"].keys_changed = {FundBalanceKey}
    /\ tx["t2"].keys_changed = {FundBalanceKey}
    /\ pre.accepted # {}

\* C28: the result of validate_tx is the same for every verifiers set, and
\* the same for every tx_data unless the slash fund's balance of the native
\* token is among the changed keys.
C28_IndependentOfVerifiersAndData ==
    verdict # NoVerdict =>
        /\ \A verifiers \in VerifierSets :
               AloneVerdicts(pre, [tx EXCEPT !.verifiers = verifiers])
                   = {verdict}
        /\ FundBalanceKey \notin tx.keys_changed =>
               \A tx_data \in TxDatas, verifiers \in VerifierSets :
                   AloneVerdicts(pre, [tx EXCEPT !.tx_data = tx_data,
                                                 !.verifiers = verifiers])
                       = {verdict}

\* A transaction with verifiers and an undecodable payload that changes the
\* fund's balance of another token and a balance of the native token.
C28_Witness ==
    /\ Validated
    /\ tx.verifiers # {}
    /\ tx.tx_data = <<>>
    /\ pre.native_token = Nam
    /\ tx.keys_changed = {BtcBalanceOfFund, NativeBalanceOfAlbert}
    /\ verdict = Ok(TRUE)

---------------------------------------------------------------------------
(* PosRewardsCalculator (proof_of_stake/src/rewards.rs).  u64 is modelled  *)
(* as the integers below 2^Bits; an overflowing u64 operation aborts the   *)
(* call in a build with overflow checks and wraps in a build without them. *)
(* Decimal holds every u64 and every difference of them exactly, so it is  *)
(* modelled by the integers.                                               *)

Bits == 3
MaxParam == 2

U64Modulus == 2 ^ Bits
U64 == 0..(U64Modulus - 1)
Params == 0..MaxParam

Wrap(x) == x % U64Modulus
Overflows(x) == x < 0 \/ x >= U64Modulus

Returned(v) == [val |-> v]
Panic == [panic |-> "arithmetic overflow"]

InsufficentVotes == "InsufficentVotes"
CoeffsNotSet == "CoeffsNotSet"

\* let num = 2 * total_stake; (num + 3 - 1) / 3
get_min_required_votes(self) ==
    LET num == 2 * self.total_stake
        sum == Wrap(num) + 3
        dif == Wrap(sum) - 1
    IN  IF self.overflow_checks
             /\ (Overflows(num) \/ Overflows(sum) \/ Overflows(dif))
        THEN Panic
        ELSE Returned(Wrap(dif) \div 3)

PosRewards(proposer_coeff, signer_coeff, active_val_coeff) ==
    [proposer_coeff |-> proposer_coeff,
     signer_coeff |-> signer_coeff,
     active_val_coeff |-> active_val_coeff]

\* Mutant: the residual coefficient leaves the signer coefficient out.
set_reward_coeffs_no_signer(self) ==
    LET votes_needed == get_min_required_votes(self)
        product == self.proposer_param
                       * (self.signing_stake - votes_needed.val)
    IN  IF votes_needed = Panic THEN [ret |-> Panic, self |-> self]
        ELSE IF self.signing_stake < votes_needed.val
        THEN [ret |-> Err(InsufficentVotes), self |-> self]
        ELSE IF self.overflow_checks /\ Overflows(product)
        THEN [ret |-> Panic, self |-> self]
        ELSE [ret |-> Ok(<<>>),
              self |-> [self EXCEPT !.pos_rewards =
                  Some(PosRewards(Wrap(product), self.signer_param,
                                  1 - Wrap(product)))]]

\* Mutant: a call on a calculator whose coefficients are set clears them.
set_reward_coeffs_toggle(self) ==
    LET votes_needed == get_min_required_votes(self)
        product == self.proposer_param
                       * (self.signing_stake - votes_needed.val)
    IN  IF votes_needed = Panic THEN [ret |-> Panic, self |-> self]
        ELSE IF self.signing_stake < votes_needed.val
        THEN [ret |-> Err(InsufficentVotes), self |-> self]
        ELSE IF self.overflow_checks /\ Overflows(product)
        THEN [ret |-> Panic, self |-> self]
        ELSE IF is_some(self.pos_rewards)
        THEN [ret |-> Ok(<<>>), self |-> [self EXCEPT !.pos_rewards = None]]
        ELSE [ret |-> Ok(<<>>),
              self |-> [self EXCEPT !.pos_rewards =
                  Some(PosRewards(Wrap(product), self.signer_param,
                      1 - Wrap(product) - self.signer_param))]]

\* Mutant: the comparison of signing_stake with votes_needed is left out.
set_reward_coeffs_unguarded(self) ==
    LET votes_needed == get_min_required_votes(self)
        product == self.proposer_param
                       * (self.signing_stake - votes_needed.val)
    IN  IF votes_needed = Panic THEN [ret |-> Panic, self |-> self]
        ELSE IF self.overflow_checks /\ Overflows(product)
        THEN [ret |-> Panic, self |-> self]
        ELSE [ret |-> Ok(<<>>),
              self |-> [self EXCEPT !.pos_rewards =
                  Some(PosRewards(Wrap(product), self.signer_param,
                      1 - Wrap(product) - self.signer_param))]]

\* set_reward_coeffs(&mut self): the result and the calculator afterwards.
set_reward_coeffs(self) ==
    LET votes_needed == get_min_required_votes(self)
        product == self.proposer_param
                       * (self.signing_stake - votes_needed.val)
        proposer_coeff == Wrap(product)
        signer_coeff == self.signer_param
        active_val_coeff == 1 - proposer_coeff - signer_coeff
    IN  IF votes_needed = Panic THEN [ret |-> Panic, self |-> self]
        ELSE IF self.signing_stake < votes_needed.val
        THEN [ret |-> Err(InsufficentVotes), self |-> self]
        ELSE IF self.overflow_checks /\ Overflows(product)
        THEN [ret |-> Panic, self |-> self]
        ELSE [ret |-> Ok(<<>>),
              self |-> [self EXCEPT !.pos_rewards =
                  Some(PosRewards(proposer_coeff, signer_coeff,
                                  active_val_coeff))]]

get_reward_coeffs(self) ==
    IF is_some(self.pos_rewards)
    THEN Ok(self.pos_rewards[1]) ELSE Err(CoeffsNotSet)

\* Mutant: zero is returned while the coefficients are not set.
get_proposer_coeff_or_zero(self) ==
    IF is_some(self.pos_rewards)
    THEN Ok(self.pos_rewards[1].proposer_coeff) ELSE Ok(0)

get_proposer_coeff(self) ==
    IF is_some(self.pos_rewards)
    THEN Ok(self.pos_rewards[1].proposer_coeff) ELSE Err(CoeffsNotSet)

get_signer_coeff(self) ==
    IF is_some(self.pos_rewards)
    THEN Ok(self.pos_rewards[1].signer_coeff) ELSE Err(CoeffsNotSet)

get_active_val_coeff(self) ==
    IF is_some(self.pos_rewards)
    THEN Ok(self.pos_rewards[1].active_val_coeff) ELSE Err(CoeffsNotSet)

\* PosRewardsCalculator::new with any inputs, in a build with or without
\* overflow checks; no call made yet.
PosInit ==
    /\ calc \in [proposer_param : Params, signer_param : Params,
                 signing_stake : U64, total_stake : U64,
                 pos_rewards : {None}, overflow_checks : BOOLEAN]
    /\ calcRet = <<>>

\* An overflow has aborted the caller.
Panicked == calcRet # <<>> /\ calcRet.ret = Panic

\* A call of set_reward_coeffs has returned Ok.
SetSucceeded == calcRet # <<>> /\ calcRet.succeeded

\* The record of a call: its result, the coefficients before it, for
\* set_reward_coeffs the votes_needed it computed, and whether a
\* set_reward_coeffs has succeeded by now.
CalcCall(name, ret, votes_needed) ==
    [op |-> name, ret |-> ret, before |-> calc.pos_rewards,
     votes_needed |-> votes_needed,
     succeeded |-> SetSucceeded
                       \/ (name = "set_reward_coeffs" /\ ret = Ok(<<>>))]

SetRewardCoeffs ==
    /\ ~Panicked
    /\ LET r == set_reward_coeffs(calc)
       IN  /\ calc' = r.self
           /\ calcRet' = CalcCall("set_reward_coeffs", r.ret,
                                  get_min_required_votes(calc))
    /\ UNCHANGED nonPosVars

Accessor(name, ret) ==
    /\ ~Panicked
    /\ calcRet' = CalcCall(name, ret, <<>>)
    /\ UNCHANGED <<calc, nonPosVars>>

GetRewardCoeffs == Accessor("get_reward_coeffs", get_reward_coeffs(calc))

GetProposerCoeff == Accessor("get_proposer_coeff", get_proposer_coeff(calc))

GetSignerCoeff == Accessor("get_signer_coeff", get_signer_coeff(calc))

GetActiveValCoeff ==
    Accessor("get_active_val_coeff", get_active_val_coeff(calc))

---------------------------------------------------------------------------
(* Properties of PosRewardsCalculator. *)

\* The ceiling of 2 * total_stake / 3 over the integers.
CeilTwoThirds(total_stake) == (2 * total_stake + 2) \div 3

SetCalled == calcRet # <<>> /\ calcRet.op = "set_reward_coeffs"

AccessorCalled == calcRet # <<>> /\ calcRet.op # "set_reward_coeffs"

Coeffs == calc.pos_rewards[1]

\* C13: set_reward_coeffs fails with InsufficentVotes exactly when
\* signing_stake < ceil(2 * total_stake / 3), the failure leaves the
\* calculator as it was, and the call succeeds when signing_stake is at or
\* above that threshold.
C13_InsufficientVotesExactly ==
    SetCalled =>
        /\ calcRet.ret = Err(InsufficentVotes)
               <=> calc.signing_stake < CeilTwoThirds(calc.total_stake)
        /\ calcRet.ret = Err(InsufficentVotes)
               => calc.pos_rewards = calcRet.before
        /\ calc.signing_stake >= CeilTwoThirds(calc.total_stake)
               => calcRet.ret = Ok(<<>>)

\* C14: while no set_reward_coeffs has succeeded every accessor returns
\* Err(CoeffsNotSet); once one has, every accessor returns the stored
\* value, and the single accessors agree with get_reward_coeffs.
C14_AccessorsFollowState ==
    /\ ~SetSucceeded /\ calc # <<>> =>
           /\ get_reward_coeffs(calc) = Err(CoeffsNotSet)
           /\ get_proposer_coeff(calc) = Err(CoeffsNotSet)
           /\ get_signer_coeff(calc) = Err(CoeffsNotSet)
           /\ get_active_val_coeff(calc) = Err(CoeffsNotSet)
    /\ SetSucceeded =>
           /\ is_some(calc.pos_rewards)
           /\ get_reward_coeffs(calc) = Ok(Coeffs)
           /\ get_proposer_coeff(calc)
                  = Ok(get_reward_coeffs(calc).val.proposer_coeff)
           /\ get_signer_coeff(calc)
                  = Ok(get_reward_coeffs(calc).val.signer_coeff)
           /\ get_active_val_coeff(calc)
                  = Ok(get_reward_coeffs(calc).val.active_val_coeff)
    /\ AccessorCalled =>
           calcRet.ret =
               CASE calcRet.op = "get_reward_coeffs" ->
                        get_reward_coeffs(calc)
                 [] calcRet.op = "get_proposer_coeff" ->
                        get_proposer_coeff(calc)
                 [] calcRet.op = "get_signer_coeff" ->
                        get_signer_coeff(calc)
                 [] calcRet.op = "get_active_val_coeff" ->
                        get_active_val_coeff(calc)

\* get_signer_coeff has returned the stored coefficient after a success.
C14_Witness ==
    /\ AccessorCalled
    /\ calcRet.op = "get_signer_coeff"
    /\ SetSucceeded
    /\ calc.signer_param > 0
    /\ calcRet.ret = Ok(calc.signer_param)

\* C15: once set_reward_coeffs has succeeded the three coefficients sum to
\* exactly 1.
C15_CoeffsSumToOne ==
    SetSucceeded =>
        Coeffs.proposer_coeff + Coeffs.signer_coeff
            + Coeffs.active_val_coeff = 1

\* A success with a positive proposer and a positive signer coefficient.
C15_Witness ==
    /\ SetCalled
    /\ calcRet.ret = Ok(<<>>)
    /\ Coeffs.proposer_coeff > 0
    /\ Coeffs.signer_coeff > 0

\* C16: once the coefficients are set no call clears or changes them, a
\* further set_reward_coeffs included.
C16_SetOnceNeverChanged ==
    [][is_some(calc.pos_rewards) => calc'.pos_rewards = calc.pos_rewards]_vars

\* set_reward_coeffs has returned Ok on a calculator that was already set.
C16_Witness ==
    /\ SetCalled
    /\ calcRet.ret = Ok(<<>>)
    /\ is_some(calcRet.before)
    /\ calc.pos_rewards = calcRet.before

\* C17: for every total_stake the votes_needed of set_reward_coeffs is the
\* exact ceiling of 2 * total_stake / 3, computed without wrap-around or
\* abort.
C17_VotesNeededIsCeiling ==
    SetCalled =>
        calcRet.votes_needed = Returned(CeilTwoThirds(calc.total_stake))

\* C18: on every success the stored coefficients are the exact product
\* proposer_param * (signing_stake - votes_needed), signer_param, and 1
\* minus these two.
C18_CoeffsAreExact ==
    (SetCalled /\ calcRet.ret = Ok(<<>>)) =>
        LET exact == calc.proposer_param
                         * (calc.signing_stake - calcRet.votes_needed.val)
        IN  Coeffs = PosRewards(exact, calc.signer_param,
                                1 - exact - calc.signer_param)

\* C29: after every successful set_reward_coeffs each of the three
\* coefficients lies between 0 and 1 inclusive; in particular
\* active_val_coeff is never negative.
C29_CoeffsAreWeights ==
    SetSucceeded =>
        /\ Coeffs.proposer_coeff \in 0..1
        /\ Coeffs.signer_coeff \in 0..1
        /\ Coeffs.active_val_coeff \in 0..1

\* A call of set_reward_coeffs has reached the subtraction
\* signing_stake - votes_needed: get_min_required_votes has returned and
\* the comparison before it has not returned InsufficentVotes.
SubtractionEvaluated ==
    /\ SetCalled
    /\ calcRet.votes_needed # Panic
    /\ calcRet.ret # Err(InsufficentVotes)

\* C30: the subtraction signing_stake - votes_needed is never evaluated
\* with signing_stake below votes_needed, whatever the inputs, wrapped
\* votes_needed included.
C30_SubtractionNeverUnderflows ==
    SubtractionEvaluated =>
        /\ calc.signing_stake >= calcRet.votes_needed.val
        /\ ~Overflows(calc.signing_stake - calcRet.votes_needed.val)

\* The subtraction was evaluated at the boundary signing_stake =
\* votes_needed > 0 with a positive proposer_param, and the call succeeded.
C30_Witness ==
    /\ SubtractionEvaluated
    /\ calcRet.ret = Ok(<<>>)
    /\ calc.proposer_param > 0
    /\ calcRet.votes_needed.val > 0
    /\ calc.signing_stake = calcRet.votes_needed.val

---------------------------------------------------------------------------
(* Chain identifiers (core/src/types/chain.rs).  Strings are sequences of  *)
(* character codes, byte strings sequences of bytes.                       *)

CHAIN_ID_LENGTH == 30
CHAIN_ID_PREFIX_MAX_LEN == 19
CHAIN_ID_PREFIX_SEP == 46

MaxShort == 2
MaxGenesisLen == 1

\* Sha256 stands for the digest function of the sha2 crate: 32 bytes
\* determined by the input bytes.
RECURSIVE WeightedSum(_)
WeightedSum(bytes) ==
    IF bytes = <<>> THEN 0
    ELSE WeightedSum(SubSeq(bytes, 1, Len(bytes) - 1))
             + Len(bytes) * (bytes[Len(bytes)] + 1)

Sha256(bytes) ==
    [i \in 1..32 |->
         (17 * i + 29 * Len(bytes) + 131 * WeightedSum(bytes)) % 256]

HexDigit(n) == IF n < 10 THEN 48 + n ELSE 87 + n

\* format!("{:.width$x}", digest): the two lowercase hex digits of each
\* byte, cut after max_digits characters.
LowerHex(bytes, max_digits) ==
    LET all_digits ==
            [i \in 1..(2 * Len(bytes)) |->
                 IF i % 2 = 1 THEN HexDigit(bytes[(i + 1) \div 2] \div 16)
                              ELSE HexDigit(bytes[i \div 2] % 16)]
    IN  SubSeq(all_digits, 1,
               IF max_digits < Len(all_digits) THEN max_digits
                                               ELSE Len(all_digits))

\* str::split_once: the parts before and after the first separator.
split_once(str, sep) ==
    LET at == {i \in 1..Len(str) : str[i] = sep}
    IN  IF at = {} THEN None
        ELSE LET i == CHOOSE i \in at : \A j \in at : i <= j
             IN  Some(<<SubSeq(str, 1, i - 1), SubSeq(str, i + 1, Len(str))>>)

\* str::rsplit_once: the parts before and after the last separator.
rsplit_once(str, sep) ==
    LET at == {i \in 1..Len(str) : str[i] = sep}
    IN  IF at = {} THEN None
        ELSE LET i == CHOOSE i \in at : \A j \in at : j <= i
             IN  Some(<<SubSeq(str, 1, i - 1), SubSeq(str, i + 1, Len(str))>>)

\* a-z, A-Z, 0-9, '-', '_' and '.'
AllowedPrefixChar(c) ==
    \/ c \in 97..122
    \/ c \in 65..90
    \/ c \in 48..57
    \/ c \in {45, 95, 46}

\* ChainIdPrefix::from_str
from_str(str) ==
    LET Forbidden(c) == ~AllowedPrefixChar(c)
        forbidden_chars == SelectSeq(str, Forbidden)
    IN  IF ~(Len(str) \in 1..CHAIN_ID_PREFIX_MAX_LEN)
        THEN Err(<<"UnexpectedLen", Len(str)>>)
        ELSE IF forbidden_chars # <<>>
        THEN Err(<<"ForbiddenCharacters", forbidden_chars>>)
        ELSE Ok(str)

temp_chain_id(prefix) == prefix

\* ChainId::from_genesis
from_genesis(prefix, genesis_bytes) ==
    LET width == CHAIN_ID_LENGTH - 1 - Len(prefix)
        hash == LowerHex(Sha256(genesis_bytes), width)
    IN  prefix \o <<CHAIN_ID_PREFIX_SEP>> \o hash

\* Mutant: the chain ID is split at its first separator.
validate_split_first(self, genesis_bytes) ==
    LET parts == split_once(self, CHAIN_ID_PREFIX_SEP)
    IN  IF parts = None THEN <<<<"MissingSeparator">>>>
        ELSE LET prefix == parts[1][1]
                 hash == parts[1][2]
                 width == CHAIN_ID_LENGTH - 1 - Len(prefix)
                 expected_hash == LowerHex(Sha256(genesis_bytes), width)
             IN  IF hash # expected_hash
                 THEN <<<<"InvalidHash", expected_hash, hash>>>>
                 ELSE <<>>

\* ChainId::validate: the list of errors.
validate(self, genesis_bytes) ==
    LET parts == rsplit_once(self, CHAIN_ID_PREFIX_SEP)
    IN  IF parts = None THEN <<<<"MissingSeparator">>>>
        ELSE LET prefix == parts[1][1]
                 hash == parts[1][2]
                 width == CHAIN_ID_LENGTH - 1 - Len(prefix)
                 expected_hash == LowerHex(Sha256(genesis_bytes), width)
             IN  IF hash # expected_hash
                 THEN <<<<"InvalidHash", expected_hash, hash>>>>
                 ELSE <<>>

\* The strings offered as prefixes: short ones over letters, separators and
\* a forbidden character, alone or filled up to the maximal length and one
\* beyond it.
PrefixChars == {97, 45, CHAIN_ID_PREFIX_SEP, 33}

ShortStrings == UNION {[1..n -> PrefixChars] : n \in 0..MaxShort}

Fill(n) == [i \in 1..n |-> 98]

PrefixInputs ==
    UNION {{str,
            str \o Fill(CHAIN_ID_PREFIX_MAX_LEN - Len(str)),
            Fill(CHAIN_ID_PREFIX_MAX_LEN - Len(str)) \o str,
            str \o Fill(CHAIN_ID_PREFIX_MAX_LEN + 1 - Len(str))} :
               str \in ShortStrings}

GenesisBytes == UNION {[1..n -> {0, 255}] : n \in 0..MaxGenesisLen}

ChainInit ==
    \E input \in PrefixInputs, genesis \in GenesisBytes :
        chain = [input |-> input, genesis |-> genesis, prefix |-> None,
                 id |-> None, derived |-> FALSE, errors |-> None,
                 against |-> None]

ParsePrefix ==
    /\ chain.prefix = None
    /\ chain' = [chain EXCEPT !.prefix = Some(from_str(chain.input))]
    /\ UNCHANGED nonChainVars

PrefixParsed == chain.prefix # None /\ chain.prefix[1].ok

FromGenesis ==
    /\ PrefixParsed
    /\ chain.id = None
    /\ chain' = [chain EXCEPT
                     !.id = Some(from_genesis(chain.prefix[1].val,
                                              chain.genesis)),
                     !.derived = TRUE]
    /\ UNCHANGED nonChainVars

TempChainId ==
    /\ PrefixParsed
    /\ chain.id = None
    /\ chain' = [chain EXCEPT !.id = Some(temp_chain_id(chain.prefix[1].val))]
    /\ UNCHANGED nonChainVars

Validate(genesis_bytes) ==
    /\ chain.id # None
    /\ chain.errors = None
    /\ chain' = [chain EXCEPT
                     !.errors = Some(validate(chain.id[1], genesis_bytes)),
                     !.against = Some(genesis_bytes)]
    /\ UNCHANGED nonChainVars

---------------------------------------------------------------------------
(* Properties of ChainId. *)

\* The chain ID was derived by from_genesis and validated against the
\* genesis bytes it was derived from.
RoundTrip ==
    /\ chain.errors # None
    /\ chain.derived
    /\ chain.against = Some(chain.genesis)

\* C19: for every valid prefix and every genesis, the chain ID given by
\* from_genesis validates against the same genesis with no errors.
C19_GeneratedChainIdIsValid == RoundTrip => chain.errors = Some(<<>>)

\* The round trip of a prefix of the maximal length that contains the
\* separator.
C19_Witness ==
    /\ RoundTrip
    /\ Len(chain.input) = CHAIN_ID_PREFIX_MAX_LEN
    /\ \E i \in 1..Len(chain.input) : chain.input[i] = CHAIN_ID_PREFIX_SEP
    /\ chain.errors = Some(<<>>)

---------------------------------------------------------------------------
(* Properties of LazySet::iter over entries the set did not write. *)

\* Whether a key segment is the decimal form of an unsigned integer.
Decodes(seg) == seg # <<>> /\ \A i \in 1..Len(seg) : IsDigit(seg[i])

\* C20: iter() yields one item per storage entry under the data prefix, in
\* key order: Ok(value) where the entry's last segment decodes, Err at its
\* position where it does not; no entry is skipped and the entries before a
\* bad one are yielded as Ok.
C20_IterItemPerEntry ==
    lastOp.op = "iter" =>
        LET prefix == get_data_prefix(lastOp.key)
            under == {k \in DOMAIN storage : HasPrefix(k, prefix)}
            entries == iter_prefix_bytes(storage, prefix)
            items == lastOp.ret
        IN  /\ Len(items) = Cardinality(under)
            /\ {entries[i][1] : i \in 1..Len(entries)} = under
            /\ \A i, j \in 1..Len(entries) :
                   i < j => LexLess(KeyToString(entries[i][1]),
                                    KeyToString(entries[j][1]))
            /\ \A i \in 1..Len(items) :
                   LET seg == entries[i][1][Len(entries[i][1])]
                   IN  IF Decodes(seg)
                       THEN items[i] = Ok(DigitsValue(seg))
                       ELSE ~items[i].ok

\* An iteration over at least three entries with an undecodable one in the
\* middle: Ok, Err, Ok.
C20_Witness ==
    /\ lastOp.op = "iter"
    /\ Len(lastOp.ret) >= 3
    /\ \E i \in 2..(Len(lastOp.ret) - 1) :
           /\ ~lastOp.ret[i].ok
           /\ lastOp.ret[i - 1].ok
           /\ lastOp.ret[i + 1].ok

---------------------------------------------------------------------------
(* Storage calls and frame of LazySet::insert and LazySet::remove. *)

\* C21: remove(x) issues one read and then one delete on x's data subkey,
\* present or not; removing an absent x leaves the storage as it was and
\* returns false; the result is that of the read made before the delete.
C21_RemoveReadsThenDeletes ==
    lastOp.op = "remove" =>
        LET data_key == get_data_key(lastOp.key, lastOp.val)
        IN  /\ lastOp.calls = <<Call("read", data_key),
                                Call("delete", data_key)>>
            /\ ~has_key(lastOp.before, data_key) =>
                   /\ storage = lastOp.before
                   /\ lastOp.ret = FALSE
            /\ lastOp.ret = is_some(read(lastOp.before, data_key))

\* An absent value was removed from a set that holds other values.
C21_Witness ==
    /\ lastOp.op = "remove"
    /\ ~lastOp.had
    /\ lastOp.ret = FALSE
    /\ storage # <<>>
    /\ storage = lastOp.before
    /\ Len(lastOp.calls) = 2

\* C27: insert(x) and remove(x) touch only the storage key
\* base/"data"/<x>: every other key of the storage, the entries of a set
\* with another base key included, is as before the call, the membership of
\* every other value of the same set is unchanged, and every storage call
\* issued is on that key.
C27_OnlyOwnSubkeyTouched ==
    lastOp.op \in {"insert", "remove"} =>
        LET data_key == get_data_key(lastOp.key, lastOp.val)
        IN  /\ \A k \in ((DOMAIN storage) \cup (DOMAIN lastOp.before))
                            \ {data_key} :
                   /\ k \in DOMAIN storage
                   /\ k \in DOMAIN lastOp.before
                   /\ storage[k] = lastOp.before[k]
            /\ \A key \in LazySetKeys, val \in Vals :
                   (key # lastOp.key \/ val # lastOp.val) =>
                       (contains(key, storage, val)
                            <=> contains(key, lastOp.before, val))
            /\ \A i \in 1..Len(lastOp.calls) : lastOp.calls[i].key = data_key

\* A value was inserted into one set while the other set holds the same
\* value and more.
C27_Witness ==
    /\ lastOp.op = "insert"
    /\ lastOp.key = KeyPool
    /\ lastOp.ret = TRUE
    /\ Present(KeyTest, lastOp.val)
    /\ Len(order[KeyTest]) >= 2
    /\ Len(order[KeyPool]) >= 2

---------------------------------------------------------------------------
(* TxQueue (shared/src/types/internal.rs): a VecDeque of wrapper            *)
(* transactions, modelled as a sequence with its head first.               *)

MaxWrapper == 2
MaxPushes == 3

Wrappers == 1..MaxWrapper

\* self.0.push_back(wrapper)
TxQueue_push(self, wrapper) == Append(self, wrapper)

\* Mutant: the wrapper at the back of the queue is taken.
TxQueue_pop_back(self) ==
    IF self = <<>> THEN [ret |-> None, self |-> self]
    ELSE [ret |-> Some(self[Len(self)]),
          self |-> SubSeq(self, 1, Len(self) - 1)]

\* self.0.pop_front()
TxQueue_pop(self) ==
    IF self = <<>> THEN [ret |-> None, self |-> self]
    ELSE [ret |-> Some(Head(self)), self |-> Tail(self)]

\* self.0.iter()
TxQueue_iter(self) == self

\* self.0.is_empty()
TxQueue_is_empty(self) == self = <<>>

\* TxQueue::default(): an empty queue, nothing pushed or popped.
QueueInit ==
    queue = [q |-> <<>>, op |-> "default", ret |-> <<>>, before |-> <<>>,
             pushed |-> <<>>, popped |-> <<>>]

Push(wrapper) ==
    /\ Len(queue.pushed) < MaxPushes
    /\ queue' = [q |-> TxQueue_push(queue.q, wrapper), op |-> "push",
                 ret |-> <<>>, before |-> queue.q,
                 pushed |-> Append(queue.pushed, wrapper),
                 popped |-> queue.popped]
    /\ UNCHANGED nonQueueVars

Pop ==
    LET r == TxQueue_pop(queue.q)
    IN  /\ queue' = [q |-> r.self, op |-> "pop", ret |-> r.ret,
                     before |-> queue.q, pushed |-> queue.pushed,
                     popped |-> queue.popped \o r.ret]
        /\ UNCHANGED nonQueueVars

QueueIsEmpty ==
    /\ queue' = [queue EXCEPT !.op = "is_empty",
                              !.ret = TxQueue_is_empty(queue.q),
                              !.before = queue.q]
    /\ UNCHANGED nonQueueVars

QueueIter ==
    /\ queue' = [queue EXCEPT !.op = "iter",
                              !.ret = TxQueue_iter(queue.q),
                              !.before = queue.q]
    /\ UNCHANGED nonQueueVars

---------------------------------------------------------------------------
(* Properties of TxQueue. *)

\* C22: the wrappers popped so far followed by those still queued are the
\* wrappers pushed, in push order; pop on an empty queue returns None and
\* leaves it empty; is_empty is true exactly when every pushed wrapper has
\* been popped.
C22_QueueIsFifo ==
    /\ queue.popped \o queue.q = queue.pushed
    /\ (queue.op = "pop" /\ queue.before = <<>>) =>
           (queue.ret = None /\ queue.q = <<>>)
    /\ (queue.op = "pop" /\ queue.before # <<>>) =>
           queue.ret = Some(queue.pushed[Len(queue.popped)])
    /\ TxQueue_is_empty(queue.q) <=> (Len(queue.popped) = Len(queue.pushed))
    /\ queue.op = "is_empty" =>
           (queue.ret <=> (Len(queue.popped) = Len(queue.pushed)))

\* Two different wrappers were popped in the order of their pushes while a
\* third is still queued.
C22_Witness ==
    /\ queue.op = "pop"
    /\ Len(queue.popped) = 2
    /\ queue.popped[1] # queue.popped[2]
    /\ queue.popped = SubSeq(queue.pushed, 1, 2)
    /\ queue.q # <<>>

---------------------------------------------------------------------------
(* The mock Web3 client (ethereum_node/test_tools/mod.rs).  The client is  *)
(* a record of the fields of Web3Client; cmd_channel holds the commands    *)
(* sent and not yet received, oldest first.  The seen sender of an event   *)
(* is its identity together with whether its receiver is still open.       *)

MaxQueued == 2
MaxQueuedEvents == 1
MaxHeight == 1

\* Block heights; the heights of events start at 1.
Heights == 0..MaxHeight
EventHeights == 1..MaxHeight

\* The oneshot channels a test has created for its events.
SeenOrder == <<"seen1", "seen2", "seen3">>
SeenChannels == Range(SeenOrder)

MockEventTypes ==
    {"TransferToNamada", "TransferToEthereum", "ValSetUpdate", "NewContract",
     "UpgradedContract", "BridgeWhitelist"}

\* The match of check_for_events on the first signature: the event type,
\* None for any other string.
SigEventType(sig) ==
    CASE sig = "TRANSFER_TO_NAMADA_SIG" -> Some("TransferToNamada")
      [] sig = "TRANSFER_TO_ETHEREUM_SIG" -> Some("TransferToEthereum")
      [] sig = "VALIDATOR_SET_UPDATE_SIG" -> Some("ValSetUpdate")
      [] sig = "NEW_CONTRACT_SIG" -> Some("NewContract")
      [] sig = "UPGRADED_CONTRACT_SIG" -> Some("UpgradedContract")
      [] sig = "UPDATE_BRIDGE_WHITELIST_SIG" -> Some("BridgeWhitelist")
      [] OTHER -> None

Web3Panic(msg) == [panic |-> msg]

\* Web3::setup: the client, its command channel empty.
setup ==
    [cmd_channel |-> <<>>, active |-> TRUE, latest_block_height |-> 0,
     events |-> <<>>]

\* Mutant: every command waiting in the channel is applied.
RECURSIVE check_cmd_channel_drain(_)
check_cmd_channel_drain(client) ==
    IF client.cmd_channel = <<>> THEN client
    ELSE LET cmd == Head(client.cmd_channel)
             rest == [client EXCEPT !.cmd_channel = Tail(@)]
         IN  check_cmd_channel_drain(
                 CASE cmd.cmd = "Normal" -> [rest EXCEPT !.active = TRUE]
                   [] cmd.cmd = "Unresponsive" ->
                          [rest EXCEPT !.active = FALSE]
                   [] cmd.cmd = "NewHeight" ->
                          [rest EXCEPT !.latest_block_height = cmd.height]
                   [] cmd.cmd = "NewEvent" ->
                          [rest EXCEPT !.events = Append(@, cmd.event)])

\* Web3::check_cmd_channel: try_recv one command and apply it.
check_cmd_channel(client) ==
    IF client.cmd_channel = <<>> THEN client
    ELSE LET cmd == Head(client.cmd_channel)
             rest == [client EXCEPT !.cmd_channel = Tail(@)]
         IN  CASE cmd.cmd = "Normal" -> [rest EXCEPT !.active = TRUE]
               [] cmd.cmd = "Unresponsive" -> [rest EXCEPT !.active = FALSE]
               [] cmd.cmd = "NewHeight" ->
                      [rest EXCEPT !.latest_block_height = cmd.height]
               [] cmd.cmd = "NewEvent" ->
                      [rest EXCEPT !.events = Append(@, cmd.event)]

\* Web3::eth_block_number
eth_block_number(client) ==
    LET c == check_cmd_channel(client)
    IN  [ret |-> Ok(c.latest_block_height), self |-> c]

Log(data) == [data |-> data]

\* The loop of check_for_events over the events taken out of the client:
\* a matching event is signalled and logged, any other is pushed back; a
\* send to a dropped receiver fails and the unwrap aborts the call, the
\* events not yet visited being dropped with the local vector.
RECURSIVE ScanEvents(_, _, _, _)
ScanEvents(events, ty, block_to_check, acc) ==
    IF events = <<>> THEN acc
    ELSE LET event == Head(events)
         IN  IF event.event_type = ty /\ block_to_check >= event.height
             THEN IF event.seen.rx_open
                  THEN ScanEvents(Tail(events), ty, block_to_check,
                           [acc EXCEPT !.logs = Append(@, Log(event.data)),
                                       !.signalled = Append(@, event.seen.id)])
                  ELSE [acc EXCEPT !.panicked = TRUE]
             ELSE ScanEvents(Tail(events), ty, block_to_check,
                      [acc EXCEPT !.kept = Append(@, event)])

\* Mutant: the matching events are logged and signalled but stay pending.
check_for_events_keep(client, block_to_check, events) ==
    LET c == check_cmd_channel(client)
        ty == SigEventType(events[1])
        scan == ScanEvents(c.events, ty[1], block_to_check,
                           [logs |-> <<>>, kept |-> <<>>, signalled |-> <<>>,
                            panicked |-> FALSE])
    IN  IF ~c.active
        THEN [ret |-> Err("Runtime"), self |-> c, signalled |-> <<>>]
        ELSE IF events = <<>>
        THEN [ret |-> Web3Panic("removal index out of bounds"), self |-> c,
              signalled |-> <<>>]
        ELSE IF ty = None
        THEN [ret |-> Ok(<<>>), self |-> c, signalled |-> <<>>]
        ELSE IF scan.panicked
        THEN [ret |-> Web3Panic("send to a dropped receiver"),
              self |-> [c EXCEPT !.events = scan.kept],
              signalled |-> scan.signalled]
        ELSE [ret |-> Ok(scan.logs), self |-> c,
              signalled |-> scan.signalled]

\* Mutant: the events are searched whether the client is active or not.
check_for_events_always(client, block_to_check, events) ==
    LET c == check_cmd_channel(client)
        ty == SigEventType(events[1])
        scan == ScanEvents(c.events, ty[1], block_to_check,
                           [logs |-> <<>>, kept |-> <<>>, signalled |-> <<>>,
                            panicked |-> FALSE])
    IN  IF events = <<>>
        THEN [ret |-> Web3Panic("removal index out of bounds"), self |-> c,
              signalled |-> <<>>]
        ELSE IF ty = None
        THEN [ret |-> Ok(<<>>), self |-> c, signalled |-> <<>>]
        ELSE IF scan.panicked
        THEN [ret |-> Web3Panic("send to a dropped receiver"),
              self |-> [c EXCEPT !.events = scan.kept],
              signalled |-> scan.signalled]
        ELSE [ret |-> Ok(scan.logs),
              self |-> [c EXCEPT !.events = scan.kept],
              signalled |-> scan.signalled]

\* Web3::check_for_events: the result, the client afterwards and the seen
\* channels signalled, in order.
check_for_events(client, block_to_check, events) ==
    LET c == check_cmd_channel(client)
        ty == SigEventType(events[1])
        scan == ScanEvents(c.events, ty[1], block_to_check,
                           [logs |-> <<>>, kept |-> <<>>, signalled |-> <<>>,
                            panicked |-> FALSE])
    IN  IF ~c.active
        THEN [ret |-> Err("Runtime"), self |-> c, signalled |-> <<>>]
        ELSE IF events = <<>>
        THEN [ret |-> Web3Panic("removal index out of bounds"), self |-> c,
              signalled |-> <<>>]
        ELSE IF ty = None
        THEN [ret |-> Ok(<<>>), self |-> c, signalled |-> <<>>]
        ELSE IF scan.panicked
        THEN [ret |-> Web3Panic("send to a dropped receiver"),
              self |-> [c EXCEPT !.events = scan.kept],
              signalled |-> scan.signalled]
        ELSE [ret |-> Ok(scan.logs),
              self |-> [c EXCEPT !.events = scan.kept],
              signalled |-> scan.signalled]

\* The commands a test sends.  The data of an event names the oneshot
\* channel made for it, whose receiver the test may have dropped.
ModeCmds == {[cmd |-> "Normal"], [cmd |-> "Unresponsive"]}

HeightCmds == {[cmd |-> "NewHeight", height |-> h] : h \in EventHeights}

NewEvent(ty, data, height, seen) ==
    [cmd |-> "NewEvent",
     event |-> [event_type |-> ty, data |-> data, height |-> height,
                seen |-> seen]]

\* The oneshot channel of the next event: the first one not yet used.
NextSeen(used) ==
    SeenOrder[CHOOSE i \in 1..Len(SeenOrder) :
                  /\ SeenOrder[i] \notin used
                  /\ \A j \in 1..(i - 1) : SeenOrder[j] \in used]

EventCmds(used, types, receivers) ==
    IF SeenChannels \subseteq used THEN {}
    ELSE {NewEvent(ty, NextSeen(used), h,
                   [id |-> NextSeen(used), rx_open |-> open]) :
              ty \in types, h \in EventHeights, open \in receivers}

\* The signature lists passed to check_for_events.
SigLists ==
    {<<>>, <<"TRANSFER_TO_NAMADA_SIG">>, <<"UNKNOWN_SIG">>,
     <<"VALIDATOR_SET_UPDATE_SIG", "TRANSFER_TO_NAMADA_SIG">>}

Web3Panics ==
    {Web3Panic("removal index out of bounds"),
     Web3Panic("send to a dropped receiver")}

\* The record of a call: its arguments, its result, the pending list it
\* worked on and the channels it signalled.
Web3Call(block_to_check, events, ret, pending, signalled) ==
    [block_to_check |-> block_to_check, events |-> events, ret |-> ret,
     pending |-> pending, signalled |-> signalled]

NoWeb3Call == Web3Call(0, <<>>, <<>>, <<>>, <<>>)

\* The record of a step: its name, the call if it is one, and the history:
\* the channels used by the events sent, the data of the logs returned so
\* far, and the events that were pending when a call answered with an error.
Web3Step(name, call, used, delivered, refused) ==
    [op |-> name, call |-> call, used |-> used, delivered |-> delivered,
     refused |-> refused]

\* The state after Web3::setup(): no command sent, no call made.
Web3Init ==
    /\ web3 = setup
    /\ web3Ret = Web3Step("setup", NoWeb3Call, {}, <<>>, {})

\* A call has aborted the test.
Web3Panicked == web3Ret.call.ret \in Web3Panics

\* cmd_sender.send(cmd) by the test, while fewer than `room` commands wait.
SendCmd(cmd, room) ==
    /\ ~Web3Panicked
    /\ Len(web3.cmd_channel) < room
    /\ web3' = [web3 EXCEPT !.cmd_channel = Append(@, cmd)]
    /\ web3Ret' = Web3Step("send", NoWeb3Call,
                           IF cmd.cmd = "NewEvent"
                           THEN web3Ret.used \cup {cmd.event.seen.id}
                           ELSE web3Ret.used,
                           web3Ret.delivered, web3Ret.refused)
    /\ UNCHANGED nonWeb3Vars

SendMode(room) == \E cmd \in ModeCmds : SendCmd(cmd, room)

SendHeight(room) == \E cmd \in HeightCmds : SendCmd(cmd, room)

SendEvent(room, types, receivers) ==
    \E cmd \in EventCmds(web3Ret.used, types, receivers) : SendCmd(cmd, room)

EthBlockNumber ==
    /\ ~Web3Panicked
    /\ LET r == eth_block_number(web3)
       IN  /\ web3' = r.self
           /\ web3Ret' = Web3Step("eth_block_number",
                                  Web3Call(0, <<>>, r.ret, <<>>, <<>>),
                                  web3Ret.used, web3Ret.delivered,
                                  web3Ret.refused)
    /\ UNCHANGED nonWeb3Vars

\* The seen channels of the events of a list.
EventIds(events) == {events[i].seen.id : i \in 1..Len(events)}

CheckForEvents(block_to_check, events) ==
    /\ ~Web3Panicked
    /\ LET r == check_for_events(web3, block_to_check, events)
       IN  /\ web3' = r.self
           /\ web3Ret' = Web3Step("check_for_events",
                  Web3Call(block_to_check, events, r.ret,
                           check_cmd_channel(web3).events, r.signalled),
                  web3Ret.used,
                  IF r.ret = Err("Runtime") \/ r.ret \in Web3Panics
                  THEN web3Ret.delivered
                  ELSE web3Ret.delivered
                           \o [i \in 1..Len(r.ret.val) |-> r.ret.val[i].data],
                  IF r.ret = Err("Runtime")
                  THEN web3Ret.refused \cup EventIds(r.self.events)
                  ELSE web3Ret.refused)
    /\ UNCHANGED nonWeb3Vars

---------------------------------------------------------------------------
(* Properties of the mock Web3 client. *)

EventsChecked == web3Ret.op = "check_for_events"

\* The event type a call asked for, and whether the call got as far as
\* searching the pending events for it.
AskedType == SigEventType(web3Ret.call.events[1])

Searched ==
    /\ EventsChecked
    /\ web3.active
    /\ web3Ret.call.events # <<>>
    /\ AskedType # None

Matching(event) ==
    /\ event.event_type = AskedType[1]
    /\ web3Ret.call.block_to_check >= event.height

NotMatching(event) == ~Matching(event)

MatchingPending == SelectSeq(web3Ret.call.pending, Matching)

\* The position of the first matching pending event whose receiver is
\* dropped; 0 if there is none.
FirstDropped ==
    LET at == {i \in 1..Len(web3Ret.call.pending) :
                   /\ Matching(web3Ret.call.pending[i])
                   /\ ~web3Ret.call.pending[i].seen.rx_open}
    IN  IF at = {} THEN 0 ELSE CHOOSE i \in at : \A j \in at : i <= j

NoDuplicates(seq) ==
    \A i, j \in 1..Len(seq) : i # j => seq[i] # seq[j]

\* C23 as claimed: an active client returns one log for exactly the pending
\* events of the asked type at or below block_to_check, removes them,
\* signals each of them, and keeps the others in order; no event is
\* delivered twice.
C23_MatchingEventsDelivered ==
    /\ Searched =>
           /\ web3Ret.call.ret =
                  Ok([i \in 1..Len(MatchingPending) |->
                          Log(MatchingPending[i].data)])
           /\ web3Ret.call.signalled =
                  [i \in 1..Len(MatchingPending) |->
                       MatchingPending[i].seen.id]
           /\ web3.events = SelectSeq(web3Ret.call.pending, NotMatching)
    /\ NoDuplicates(web3Ret.delivered)

\* C23 amended: the claimed delivery holds when the receiver of every
\* matching event is open; at the first matching event whose receiver is
\* dropped the call aborts, having signalled the matching events before it
\* and kept only the other events before it.  No event is delivered twice.
C23_DeliveredUnlessReceiverDropped ==
    /\ (Searched /\ FirstDropped = 0) =>
           /\ web3Ret.call.ret =
                  Ok([i \in 1..Len(MatchingPending) |->
                          Log(MatchingPending[i].data)])
           /\ web3Ret.call.signalled =
                  [i \in 1..Len(MatchingPending) |->
                       MatchingPending[i].seen.id]
           /\ web3.events = SelectSeq(web3Ret.call.pending, NotMatching)
    /\ (EventsChecked /\ web3Ret.call.events # <<>> /\ AskedType # None
            /\ web3Ret.call.ret \notin {Err("Runtime")} /\ FirstDropped > 0) =>
           LET visited == SubSeq(web3Ret.call.pending, 1, FirstDropped - 1)
           IN  /\ web3Ret.call.ret = Web3Panic("send to a dropped receiver")
               /\ web3Ret.call.signalled =
                      [i \in 1..Len(SelectSeq(visited, Matching)) |->
                           SelectSeq(visited, Matching)[i].seen.id]
               /\ web3.events = SelectSeq(visited, NotMatching)
    /\ NoDuplicates(web3Ret.delivered)

\* Of three pending events the middle one was delivered and the other two
\* were kept.
C23_Witness ==
    /\ Searched
    /\ Len(web3Ret.call.pending) = 3
    /\ web3Ret.call.ret = Ok(<<Log(web3Ret.call.pending[2].data)>>)
    /\ web3.events = <<web3Ret.call.pending[1], web3Ret.call.pending[3]>>

\* The seen channels of the NewEvent commands waiting in the channel.
QueuedIds ==
    {web3.cmd_channel[i].event.seen.id :
         i \in {j \in 1..Len(web3.cmd_channel) :
                    web3.cmd_channel[j].cmd = "NewEvent"}}

C25_NoHeightWhileUnresponsive ==
    web3Ret.op = "eth_block_number" =>
        /\ web3.active => web3Ret.call.ret = Ok(web3.latest_block_height)
        /\ ~web3.active => ~web3Ret.call.ret.ok

\* What the command cmd does to the client.
Applied(cmd) ==
    /\ web3'.active = CASE cmd.cmd = "Normal" -> TRUE
                        [] cmd.cmd = "Unresponsive" -> FALSE
                        [] OTHER -> web3.active
    /\ web3'.latest_block_height =
           IF cmd.cmd = "NewHeight" THEN cmd.height
           ELSE web3.latest_block_height
    /\ IF cmd.cmd = "NewEvent"
       THEN cmd.event.seen.id
                \in EventIds(web3'.events) \cup Range(web3Ret'.call.signalled)
       ELSE EventIds(web3'.events) \subseteq EventIds(web3.events)

\* C26: a call takes the oldest waiting command, if there is one, applies
\* it and leaves the later ones waiting in their order; a call that finds
\* no command changes neither mode nor height; a send only appends.
C26_OneCommandPerCall ==
    [][IF web3Ret'.op = "send"
       THEN /\ SubSeq(web3'.cmd_channel, 1, Len(web3.cmd_channel))
                   = web3.cmd_channel
            /\ Len(web3'.cmd_channel) = Len(web3.cmd_channel) + 1
            /\ web3'.active = web3.active
            /\ web3'.latest_block_height = web3.latest_block_height
            /\ web3'.events = web3.events
       ELSE IF web3.cmd_channel = <<>>
       THEN /\ web3'.cmd_channel = <<>>
            /\ web3'.active = web3.active
            /\ web3'.latest_block_height = web3.latest_block_height
            /\ EventIds(web3'.events) \subseteq EventIds(web3.events)
       ELSE /\ web3'.cmd_channel = Tail(web3.cmd_channel)
            /\ Applied(Head(web3.cmd_channel))]_vars

\* A call has applied Unresponsive and left the NewHeight sent after it
\* waiting: the height returned is still the initial one.
C26_Witness ==
    /\ web3Ret.op = "eth_block_number"
    /\ ~web3.active
    /\ Len(web3.cmd_channel) >= 1
    /\ web3.cmd_channel[1].cmd = "NewHeight"
    /\ web3.cmd_channel[1].height # web3.latest_block_height
    /\ web3Ret.call.ret = Ok(web3.latest_block_height)

---------------------------------------------------------------------------
(* Specifications. *)

\* No validation is in progress.
VpIdle == pre = <<>> /\ tx = <<>> /\ verdict = NoVerdict

\* No calculator and no chain ID is in use.
PosIdle == calc = <<>> /\ calcRet = <<>>
ChainIdle == chain = <<>>
QueueIdle == queue = <<>>
Web3Idle == web3 = <<>> /\ web3Ret = <<>>

\* Calls of every LazySet operation on the set at "test".
Init ==
    LazySetInit /\ VpIdle /\ PosIdle /\ ChainIdle /\ QueueIdle /\ Web3Idle

Next ==
    \/ \E val \in Vals : Insert(KeyTest, val)
    \/ \E val \in Vals : Remove(KeyTest, val)
    \/ \E val \in Vals : Contains(KeyTest, val)
    \/ LenCall(KeyTest)
    \/ IsEmpty(KeyTest)
    \/ Iter(KeyTest)

Spec == Init /\ [][Next]_vars

\* insert and remove calls on two sets that share one storage.
NextTwoSets ==
    \/ \E key \in LazySetKeys, val \in Vals : Insert(key, val)
    \/ \E key \in LazySetKeys, val \in Vals : Remove(key, val)

SpecTwoSets == Init /\ [][NextTwoSets]_vars

\* One validation of each candidate transaction over each pre-write state.
InitSlashFund ==
    LazySetInit /\ VpInit /\ PosIdle /\ ChainIdle /\ QueueIdle /\ Web3Idle

NextSlashFund == ValidateTx

SpecSlashFund == InitSlashFund /\ [][NextSlashFund]_vars

\* The validations of two transactions over one pre-write state.
InitParallelVp ==
    LazySetInit /\ ParallelInit /\ PosIdle /\ ChainIdle /\ QueueIdle /\ Web3Idle

NextParallelVp == \E t \in Tasks : ValidateTask(t)

SpecParallelVp == InitParallelVp /\ [][NextParallelVp]_vars

\* One PosRewardsCalculator under any sequence of calls.
InitRewards ==
    LazySetInit /\ VpIdle /\ PosInit /\ ChainIdle /\ QueueIdle /\ Web3Idle

NextRewards ==
    \/ SetRewardCoeffs
    \/ GetRewardCoeffs
    \/ GetProposerCoeff
    \/ GetSignerCoeff
    \/ GetActiveValCoeff

SpecRewards == InitRewards /\ [][NextRewards]_vars

\* One chain ID prefix and genesis: parse, derive, validate.
InitChain ==
    LazySetInit /\ VpIdle /\ PosIdle /\ ChainInit /\ QueueIdle /\ Web3Idle

NextChain ==
    \/ ParsePrefix
    \/ FromGenesis
    \/ TempChainId
    \/ \E genesis_bytes \in GenesisBytes : Validate(genesis_bytes)

SpecChain == InitChain /\ [][NextChain]_vars

\* One set, with entries under its data prefix that the set did not write.
NextRawEntries ==
    \/ \E val \in Vals : Insert(KeyTest, val)
    \/ \E val \in Vals : Remove(KeyTest, val)
    \/ \E seg \in RawSegments : RawWrite(KeyTest, seg)
    \/ Iter(KeyTest)

SpecRawEntries == Init /\ [][NextRawEntries]_vars

\* One TxQueue under any sequence of calls.
InitQueue ==
    LazySetInit /\ VpIdle /\ PosIdle /\ ChainIdle /\ QueueInit /\ Web3Idle

NextQueue ==
    \/ \E wrapper \in Wrappers : Push(wrapper)
    \/ Pop
    \/ QueueIsEmpty
    \/ QueueIter

SpecQueue == InitQueue /\ [][NextQueue]_vars

\* One mock Web3 client: a test sends events and mode commands, at most
\* MaxQueuedEvents of them waiting, and calls check_for_events.
InitWeb3 ==
    LazySetInit /\ VpIdle /\ PosIdle /\ ChainIdle /\ QueueIdle /\ Web3Init

NextWeb3Events ==
    \/ SendMode(MaxQueuedEvents)
    \/ SendEvent(MaxQueuedEvents, {"TransferToNamada", "ValSetUpdate"},
                 BOOLEAN)
    \/ \E block_to_check \in Heights, events \in SigLists :
           CheckForEvents(block_to_check, events)

SpecWeb3Events == InitWeb3 /\ [][NextWeb3Events]_vars

\* One mock Web3 client: a test sends commands of every kind, at most
\* MaxQueued of them waiting, and calls both methods.
NextWeb3 ==
    \/ SendMode(MaxQueued)
    \/ SendHeight(MaxQueued)
    \/ SendEvent(MaxQueued, {"TransferToNamada"}, {TRUE})
    \/ EthBlockNumber
    \/ \E block_to_check \in Heights :
           CheckForEvents(block_to_check, <<"TRANSFER_TO_NAMADA_SIG">>)

SpecWeb3 == InitWeb3 /\ [][NextWeb3]_vars

=========================================================================
